---- MODULE Spec2Model ----
(***************************************************************************)
(* Model of pylinsql/code_generator.py: the catalog schema builder.        *)
(*                                                                         *)
(* The database is the environment.  Its content (the tables of the target *)
(* schema, the foreign-key constraint rows, the column rows) is chosen in  *)
(* Init and never changes.  The program reads it through three queries:    *)
(*   - the recursive "dependencies" query of get_catalog_schema, which is  *)
(*     evaluated the way PostgreSQL evaluates WITH RECURSIVE ... UNION ALL:*)
(*     the non-recursive term, then the recursive term applied to the      *)
(*     working table until the working table is empty;                     *)
(*   - the column query of _get_table_schema;                              *)
(*   - the constraint queries of _set_foreign_keys and _set_unique_keys.   *)
(*                                                                         *)
(* Table names are represented by natural numbers: the number is the rank  *)
(* of the name in the collation order that ORDER BY child_name uses.       *)
(***************************************************************************)
EXTENDS Integers, Sequences, FiniteSets, TLC

\* ---------------------------------------------------------------- bounds
NumTables == 3      \* at most this many tables in the target schema
NumCols == 2        \* every table has this many columns
MaxFks == 3         \* at most this many foreign-key constraint rows
MaxDepth == 5       \* the recursion is followed up to this depth

\* ------------------------------------------------------------- constants
db_schema == "public"       \* --schema default
OtherSchema == "audit"      \* some schema different from db_schema
OtherNames == {1}           \* tables of the other schema
NULL == 0                   \* SQL NULL in a name column

None == [none |-> TRUE]     \* Python None

VARIABLES
    \* database content
    tabs,           \* information_schema.tables restricted to db_schema
    ref_con,        \* referential_constraints joined with key_column_usage
    columns,        \* information_schema.columns, per table
    \* evaluation of the recursive query
    work,           \* working table of the recursion
    dependencies,   \* rows of the CTE produced so far
    \* get_catalog_schema
    tables,         \* the ordered table names
    table_schemas,  \* TableSchema objects loaded so far
    constraints,    \* rows last fetched by _set_foreign_keys
    catalog,        \* value returned by get_catalog_schema, or None
    \* main
    output,         \* what was written to output_path, or None
    error,          \* the exception that ended the run, or "none"
    pc

vars == <<tabs, ref_con, columns, work, dependencies, tables,
          table_schemas, constraints, catalog, output, error, pc>>

db == <<tabs, ref_con, columns>>

\* ------------------------------------------------------------ type mapper
\* the type names that _db_type_to_py_type recognizes
LookupTable ==
    {"character varying", "text", "boolean", "smallint", "integer", "bigint",
     "real", "double precision", "date", "time", "time with time zone",
     "time without time zone", "timestamp", "timestamp with time zone",
     "timestamp without time zone"}

\* some type names of PostgreSQL that it does not recognize
OtherTypes == {"json", "numeric", "uuid"}

PyTypeOf(db_type) ==
    IF db_type \in {"character varying", "text"} THEN "str"
    ELSE IF db_type \in {"boolean"} THEN "bool"
    ELSE IF db_type \in {"smallint", "integer", "bigint"} THEN "int"
    ELSE IF db_type \in {"real", "double precision"} THEN "float"
    ELSE IF db_type \in {"date"} THEN "date"
    ELSE IF db_type \in {"time", "time with time zone",
                         "time without time zone"} THEN "time"
    ELSE IF db_type \in {"timestamp", "timestamp with time zone",
                         "timestamp without time zone"} THEN "datetime"
    ELSE "unrecognized"

Optional(py_type) == [optional |-> TRUE, prim |-> py_type]
Bare(py_type) == [optional |-> FALSE, prim |-> py_type]

\* variant: a default does not suppress the Optional wrapper
db_type_to_py_type_nodefault(db_type, is_nullable, has_default) ==
    LET py_type == PyTypeOf(db_type) IN
    IF py_type = "unrecognized"
    THEN [raised |-> TRUE, outer_type |-> None, value_type |-> None]
    ELSE IF is_nullable
         THEN [raised |-> FALSE, outer_type |-> Optional(py_type),
               value_type |-> Bare(py_type)]
         ELSE [raised |-> FALSE, outer_type |-> Bare(py_type),
               value_type |-> Bare(py_type)]

\* _db_type_to_py_type: raised stands for the RuntimeError of line 42
db_type_to_py_type(db_type, is_nullable, has_default) ==
    LET py_type == PyTypeOf(db_type) IN
    IF py_type = "unrecognized"
    THEN [raised |-> TRUE, outer_type |-> None, value_type |-> None]
    ELSE IF is_nullable /\ ~has_default
         THEN [raised |-> FALSE, outer_type |-> Optional(py_type),
               value_type |-> Bare(py_type)]
         ELSE [raised |-> FALSE, outer_type |-> Bare(py_type),
               value_type |-> Bare(py_type)]

\* ------------------------------------------------------- database content
RECURSIVE SubsetsUpTo(_, _)
SubsetsUpTo(S, k) ==
    IF k = 0 THEN {{}}
    ELSE LET smaller == SubsetsUpTo(S, k - 1)
         IN  smaller \cup {T \cup {x} : T \in smaller, x \in S}

\* one row of the join referential_constraints x key_column_usage (pkey)
\* x key_column_usage (fkey), for a foreign key of a table of db_schema
ReferenceConstraint(T) ==
    { [foreign_key_schema |-> db_schema, foreign_key_table |-> t,
       foreign_key_column |-> c, primary_key_schema |-> s,
       primary_key_table |-> p] :
        t \in T, c \in 1..NumCols,
        <<s, p>> \in ({db_schema} \X T) \cup ({OtherSchema} \X OtherNames) }

\* rows of information_schema.columns for one table, by ordinal position;
\* the first column is an integer key, the last one varies
ColumnRows ==
    { [c \in 1..NumCols |->
         IF c = NumCols
         THEN [column_name |-> c, data_type |-> last[1],
               is_nullable |-> last[2], has_default |-> last[3]]
         ELSE [column_name |-> c, data_type |-> "integer",
               is_nullable |-> FALSE, has_default |-> FALSE]] :
        last \in { <<"text", TRUE, FALSE>>, <<"json", FALSE, FALSE>> } }

\* the same, the last column ranging over every type name and flag
AnyColumnRows ==
    { [c \in 1..NumCols |->
         IF c = NumCols
         THEN [column_name |-> c, data_type |-> ty,
               is_nullable |-> nullable, has_default |-> default]
         ELSE [column_name |-> c, data_type |-> "integer",
               is_nullable |-> FALSE, has_default |-> FALSE]] :
        ty \in LookupTable \cup OtherTypes,
        nullable \in BOOLEAN, default \in BOOLEAN }

Init ==
    /\ tabs \in {1..n : n \in 0..NumTables}
    /\ ref_con \in SubsetsUpTo(ReferenceConstraint(tabs), MaxFks)
    /\ columns \in [tabs -> ColumnRows]
    /\ work = {}
    /\ dependencies = {}
    /\ tables = <<>>
    /\ table_schemas = <<>>
    /\ constraints = <<>>
    /\ catalog = None
    /\ output = None
    /\ error = "none"
    /\ pc = "start"

\* --------------------------------------------------- the dependencies CTE
\* non-recursive term: tables that have no foreign keys (RIGHT JOIN to
\* tables, WHERE pkey.* IS NULL)
BaseRows ==
    { [depth |-> 1, parent_name |-> NULL, child_name |-> t] :
        t \in { u \in tabs :
                  ~\E c \in ref_con : c.foreign_key_table = u } }

\* recursive term: one row per (row of the working table, constraint row
\* whose referenced table is the row's child); duplicates of a row are
\* not kept, GROUP BY and the emptiness test do not see them
RecursiveRows(dep) ==
    { [depth |-> d.depth + 1, parent_name |-> d.child_name,
       child_name |-> c.foreign_key_table] :
        <<d, c>> \in { x \in dep \X ref_con :
                         /\ x[2].primary_key_schema = db_schema
                         /\ x[2].primary_key_table = x[1].child_name
                         /\ x[2].foreign_key_table \in tabs } }

Min(S) == CHOOSE m \in S : \A n \in S : m <= n

Depths(rows, t) == { r.depth : r \in { q \in rows : q.child_name = t } }

\* variant: MAX(depth)
GroupDepth_max(rows, t) ==
    CHOOSE m \in Depths(rows, t) : \A n \in Depths(rows, t) : m >= n

\* MIN(depth) of the group of child_name t
GroupDepth(rows, t) == Min(Depths(rows, t))

\* variant: ORDER BY MIN(depth), child_name DESC
OrderKeyLess_namedesc(rows, a, b) ==
    \/ GroupDepth(rows, a) < GroupDepth(rows, b)
    \/ GroupDepth(rows, a) = GroupDepth(rows, b) /\ a > b

\* ORDER BY MIN(depth), child_name
OrderKeyLess(rows, a, b) ==
    \/ GroupDepth(rows, a) < GroupDepth(rows, b)
    \/ GroupDepth(rows, a) = GroupDepth(rows, b) /\ a < b

RECURSIVE Ordered(_, _)
Ordered(rows, S) ==
    IF S = {} THEN <<>>
    ELSE LET first == CHOOSE a \in S :
                          \A b \in S \ {a} : OrderKeyLess(rows, a, b)
         IN  <<first>> \o Ordered(rows, S \ {first})

\* SELECT child_name FROM dependencies GROUP BY child_name ORDER BY ...
QueryResult(rows) == Ordered(rows, { r.child_name : r \in rows })

\* ------------------------------------------------------- _set_foreign_keys
ForeignKey(constraint) ==
    [references |-> [schema |-> constraint.primary_key_schema,
                     table |-> constraint.primary_key_table]]

\* variant: a second foreign key of a column replaces the first
BindConstraint_overwrite(cols, constraint) ==
    IF constraint.foreign_key_schema # constraint.primary_key_schema
    THEN [raised |-> "cross_schema", columns |-> cols]
    ELSE [raised |-> "none",
          columns |-> [cols EXCEPT ![constraint.foreign_key_column].references =
                                        ForeignKey(constraint)]]

\* body of the loop over the constraint rows, for one row
BindConstraint(cols, constraint) ==
    IF constraint.foreign_key_schema # constraint.primary_key_schema
    THEN [raised |-> "cross_schema", columns |-> cols]
    ELSE IF cols[constraint.foreign_key_column].references # None
    THEN [raised |-> "duplicate", columns |-> cols]
    ELSE [raised |-> "none",
          columns |-> [cols EXCEPT ![constraint.foreign_key_column].references =
                                        ForeignKey(constraint)]]

RECURSIVE SetForeignKeysFrom(_, _, _)
SetForeignKeysFrom(cols, rows, i) ==
    IF i > Len(rows) THEN [raised |-> "none", columns |-> cols]
    ELSE LET bound == BindConstraint(cols, rows[i])
         IN  IF bound.raised # "none" THEN bound
             ELSE SetForeignKeysFrom(bound.columns, rows, i + 1)

set_foreign_keys(cols, rows) == SetForeignKeysFrom(cols, rows, 1)

\* -------------------------------------------------------- _set_unique_keys
\* rows of the PRIMARY KEY constraint of a table: table 1 has a one-column
\* key, table 2 a key over every column, table 3 none, and so on
UniqueConstraintRows(t) ==
    LET n == IF t % 3 = 1 THEN 1 ELSE IF t % 3 = 2 THEN NumCols ELSE 0
    IN  [i \in 1..n |-> [key_name |-> t, key_column |-> i]]

set_unique_keys(rows) ==
    IF Len(rows) > 1
    THEN [name |-> rows[1].key_name,
          column |-> [i \in 1..Len(rows) |-> rows[i].key_column]]
    ELSE IF Len(rows) > 0
    THEN [name |-> rows[1].key_name, column |-> rows[1].key_column]
    ELSE None

\* -------------------------------------------------------- _get_table_schema
\* the column rows mapped to ColumnSchema objects; raised is TRUE when the
\* type of some column is not recognized
ColumnSchemas(rows) ==
    LET mapped == [c \in DOMAIN rows |->
                     db_type_to_py_type(rows[c].data_type, rows[c].is_nullable,
                                        rows[c].has_default)]
    IN  [raised |-> \E c \in DOMAIN rows : mapped[c].raised,
         columns |-> [c \in DOMAIN rows |->
                        [name |-> rows[c].column_name,
                         data_type |-> mapped[c].outer_type,
                         default |-> rows[c].has_default,
                         references |-> None]]]

\* failAt names the query of the load that fails (0: none): 1 the table
\* description, 2 the columns, 3 the foreign keys, 4 the primary key;
\* fkeys is the sequence of rows the foreign-key query returns; fetched
\* tells whether that query was answered
get_table_schema(db_table, failAt, fkeys) ==
    LET column_schemas == ColumnSchemas(columns[db_table])
        bound == set_foreign_keys(column_schemas.columns, fkeys)
    IN  IF failAt \in {1, 2}
        THEN [raised |-> "query", table |-> None, fetched |-> FALSE]
        ELSE IF column_schemas.raised
        THEN [raised |-> "unrecognized", table |-> None, fetched |-> FALSE]
        ELSE IF failAt = 3
        THEN [raised |-> "query", table |-> None, fetched |-> FALSE]
        ELSE IF bound.raised # "none"
        THEN [raised |-> bound.raised, table |-> None, fetched |-> TRUE]
        ELSE IF failAt = 4
        THEN [raised |-> "query", table |-> None, fetched |-> TRUE]
        ELSE [raised |-> "none", fetched |-> TRUE,
              table |-> [name |-> db_table,
                         columns |-> bound.columns,
                         primary_key |->
                            set_unique_keys(UniqueConstraintRows(db_table))]]

\* the orders in which a query without ORDER BY may return a set of rows
Enumerations(S) ==
    { s \in [1..Cardinality(S) -> S] : { s[i] : i \in DOMAIN s } = S }

ForeignKeyRows(db_table) ==
    { c \in ref_con : c.foreign_key_table = db_table }

\* ---------------------------------------------------------------- actions
\* the query is sent; the non-recursive term is evaluated
NonRecursiveTerm ==
    /\ pc = "start"
    /\ work' = BaseRows
    /\ dependencies' = BaseRows
    /\ pc' = "recursing"
    /\ UNCHANGED <<db, tables, table_schemas, constraints, catalog, output,
                   error>>

\* one iteration of the recursive term over the working table
RecursiveTerm ==
    /\ pc = "recursing"
    /\ work # {}
    /\ \A r \in work : r.depth < MaxDepth
    /\ work' = RecursiveRows(work)
    /\ dependencies' = dependencies \cup work'
    /\ UNCHANGED <<db, tables, table_schemas, constraints, catalog, output,
                   error, pc>>

\* the working table is empty: typed_fetch_column returns the names
FetchColumn ==
    /\ pc = "recursing"
    /\ work = {}
    /\ tables' = QueryResult(dependencies)
    /\ pc' = "loading"
    /\ UNCHANGED <<db, work, dependencies, table_schemas, constraints,
                   catalog, output, error>>

\* the dependency query fails in the database collaborator
OrderQueryFails ==
    /\ pc \in {"start", "recursing"}
    /\ error' = "query"
    /\ pc' = "raised_order"
    /\ UNCHANGED <<db, work, dependencies, tables, table_schemas,
                   constraints, catalog, output>>

\* variant: a failing load leaves the tables loaded so far as the catalog
LoadTable_salvage ==
    /\ pc = "loading"
    /\ Len(table_schemas) < Len(tables)
    /\ LET db_table == tables[Len(table_schemas) + 1] IN
       \E failAt \in 0..4, fkeys \in Enumerations(ForeignKeyRows(db_table)) :
         LET loaded == get_table_schema(db_table, failAt, fkeys) IN
         /\ constraints' = IF loaded.fetched THEN fkeys ELSE constraints
         /\ IF loaded.raised = "none"
            THEN /\ table_schemas' = Append(table_schemas, loaded.table)
                 /\ UNCHANGED <<catalog, error, pc>>
            ELSE /\ error' = loaded.raised
                 /\ pc' = "raised_load"
                 /\ catalog' = [name |-> db_schema, tables |-> table_schemas]
                 /\ UNCHANGED table_schemas
    /\ UNCHANGED <<db, work, dependencies, tables, output>>

\* one element of the list comprehension over tables: the load of the
\* next table; an exception of the load leaves get_catalog_schema
LoadTable ==
    /\ pc = "loading"
    /\ Len(table_schemas) < Len(tables)
    /\ LET db_table == tables[Len(table_schemas) + 1] IN
       \E failAt \in 0..4, fkeys \in Enumerations(ForeignKeyRows(db_table)) :
         LET loaded == get_table_schema(db_table, failAt, fkeys) IN
         /\ constraints' = IF loaded.fetched THEN fkeys ELSE constraints
         /\ IF loaded.raised = "none"
            THEN /\ table_schemas' = Append(table_schemas, loaded.table)
                 /\ UNCHANGED <<error, pc>>
            ELSE /\ error' = loaded.raised
                 /\ pc' = "raised_load"
                 /\ UNCHANGED table_schemas
    /\ UNCHANGED <<db, work, dependencies, tables, catalog, output>>

\* dict((table.name, table) for table in table_schemas): a later value of
\* a key replaces the earlier one in place, a new key is appended
RECURSIVE DictFrom(_, _)
DictFrom(d, items) ==
    IF items = <<>> THEN d
    ELSE LET item == Head(items)
             at == { i \in DOMAIN d : d[i].name = item.name }
         IN  IF at = {} THEN DictFrom(Append(d, item), Tail(items))
             ELSE DictFrom([d EXCEPT ![CHOOSE i \in at : TRUE] = item],
                           Tail(items))

ReturnCatalog ==
    /\ pc = "loading"
    /\ Len(table_schemas) = Len(tables)
    /\ catalog' = [name |-> db_schema, tables |-> DictFrom(<<>>, table_schemas)]
    /\ pc' = "returned"
    /\ UNCHANGED <<db, work, dependencies, tables, table_schemas,
                   constraints, output, error>>

\* table_to_dataclass: the fields that have a default follow the others
HasDefault(column) == column.default \/ column.data_type.optional

Dataclass(table) ==
    LET ordinals == DOMAIN table.columns
        IsFront(c) == ~HasDefault(table.columns[c])
        front == SelectSeq([c \in ordinals |-> c], IsFront)
        back == SelectSeq([c \in ordinals |-> c], LAMBDA c : ~IsFront(c))
    IN  [name |-> table.name,
         primary_key |-> table.primary_key,
         fields |-> [i \in 1..Len(front \o back) |->
                        table.columns[(front \o back)[i]]]]

GeneratedCode(cat) ==
    [i \in DOMAIN cat.tables |-> Dataclass(cat.tables[i])]

\* variant: main without the test of the catalog
Main_nocheck ==
    /\ pc = "returned"
    /\ output' = GeneratedCode(catalog)
    /\ pc' = "written"
    /\ UNCHANGED error
    /\ UNCHANGED <<db, work, dependencies, tables, table_schemas,
                   constraints, catalog>>

\* main, after get_catalog_schema has returned
Main ==
    /\ pc = "returned"
    /\ IF catalog.tables = <<>>
       THEN /\ error' = "empty"
            /\ pc' = "raised_main"
            /\ UNCHANGED output
       ELSE /\ output' = GeneratedCode(catalog)
            /\ pc' = "written"
            /\ UNCHANGED error
    /\ UNCHANGED <<db, work, dependencies, tables, table_schemas,
                   constraints, catalog>>

Next ==
    \/ NonRecursiveTerm
    \/ RecursiveTerm
    \/ FetchColumn
    \/ OrderQueryFails
    \/ LoadTable
    \/ ReturnCatalog
    \/ Main

Spec == Init /\ [][Next]_vars

\* a schema of one table without foreign keys, of any column type
InitTypes ==
    /\ tabs = {1}
    /\ ref_con = {}
    /\ columns \in [tabs -> AnyColumnRows]
    /\ work = {}
    /\ dependencies = {}
    /\ tables = <<>>
    /\ table_schemas = <<>>
    /\ constraints = <<>>
    /\ catalog = None
    /\ output = None
    /\ error = "none"
    /\ pc = "start"

SpecTypes == InitTypes /\ [][Next]_vars

\* ------------------------------------------------------------- vocabulary
\* the dependency query has returned its result
Queried == pc \in {"loading", "returned", "written", "raised_load",
                   "raised_main"}

\* the tables the traversal has assigned a depth to
Assigned == { r.child_name : r \in dependencies }

Appears(t) == \E i \in DOMAIN tables : tables[i] = t

Position(t) == CHOOSE i \in DOMAIN tables : tables[i] = t

\* the least depth at which the traversal has reached table t
Least(t) ==
    CHOOSE d \in Depths(dependencies, t) :
        \A e \in Depths(dependencies, t) : d <= e

\* the tables of db_schema that the foreign keys of t reference
References(t) ==
    { c.primary_key_table :
        c \in { k \in ref_con : /\ k.foreign_key_table = t
                                    /\ k.primary_key_schema = db_schema } }

RECURSIVE Closure(_, _)
Closure(S, n) ==
    IF n = 0 THEN S
    ELSE Closure(S \cup UNION { References(u) : u \in S }, n - 1)

\* t transitively depends on itself through foreign keys
DependsOnItself(t) == t \in Closure(References(t), NumTables)

\* the foreign-key graph of the scenario C -> B, B -> A, C -> A
\* (A, B, C are the names of rank 1, 2, 3)
Graph == { <<c.foreign_key_table, c.primary_key_schema, c.primary_key_table>> :
             c \in ref_con }

ScenarioCBA ==
    /\ tabs = {1, 2, 3}
    /\ Graph = { <<3, db_schema, 2>>, <<2, db_schema, 1>>, <<3, db_schema, 1>> }

\* ------------------------------------------------------------------ claims

\* C1: for every foreign key in which table A references a distinct table
\* B, if both A and B appear in the orderer's sequence then B comes
\* strictly before A.
C1_ReferencedBeforeReferencing ==
    Queried =>
        \A c \in ref_con :
            ( /\ c.primary_key_schema = db_schema
              /\ c.primary_key_table # c.foreign_key_table
              /\ Appears(c.foreign_key_table)
              /\ Appears(c.primary_key_table) )
            => Position(c.primary_key_table) < Position(c.foreign_key_table)

\* C2: depth 1 is assigned to exactly the tables with no foreign keys; a
\* table is assigned depth k+1 only when every table its foreign keys
\* reference already has a depth <= k; in the scenario C -> B, B -> A,
\* C -> A the assigned depths are A = 1, B = 2, C = 3 and the output is
\* [A, B, C].
C2_DepthRule ==
    /\ (pc = "recursing" \/ Queried) =>
         \A t \in tabs :
             (1 \in Depths(dependencies, t)) <=> (ForeignKeyRows(t) = {})
    /\ \A r \in dependencies :
         r.depth > 1 =>
           \A c \in ForeignKeyRows(r.child_name) :
               /\ c.primary_key_schema = db_schema
               /\ \E q \in dependencies :
                      /\ q.child_name = c.primary_key_table
                      /\ q.depth <= r.depth - 1
    /\ (ScenarioCBA /\ Queried) =>
         /\ GroupDepth(dependencies, 1) = 1
         /\ GroupDepth(dependencies, 2) = 2
         /\ GroupDepth(dependencies, 3) = 3
         /\ tables = <<1, 2, 3>>

\* C3: a table reached along foreign-key paths of different lengths is
\* placed in the output by the least depth at which it is reached (before
\* the tables whose least depth is greater, after those whose least depth
\* is smaller, by name among those of the same least depth), and its name
\* appears exactly once in the output, so it is loaded once.
C3_LeastDepthOnce ==
    Queried =>
        \A t \in Assigned :
            Cardinality(Depths(dependencies, t)) > 1 =>
                /\ Cardinality({ i \in DOMAIN tables : tables[i] = t }) = 1
                /\ Cardinality({ i \in DOMAIN table_schemas :
                                   table_schemas[i].name = t }) <= 1
                /\ \A u \in Assigned \ {t} :
                       /\ Appears(u)
                       /\ Least(t) < Least(u) => Position(t) < Position(u)
                       /\ Least(u) < Least(t) => Position(u) < Position(t)
                       /\ Least(u) = Least(t) =>
                            (Position(t) < Position(u) <=> t < u)

C3_Witness ==
    /\ pc = "returned"
    /\ \E t \in Assigned :
          /\ Cardinality(Depths(dependencies, t)) > 1
          /\ \E u \in Assigned : Least(u) = Least(t) /\ u > t
          /\ \E i \in DOMAIN catalog.tables : catalog.tables[i].name = t

\* C4: a table that transitively depends on itself through foreign keys is
\* never assigned a depth and is absent from the orderer's output.
C4_CyclicNeverAssigned ==
    \A t \in tabs :
        DependsOnItself(t) => /\ t \notin Assigned
                              /\ ~Appears(t)

\* the table whose load is next, or was the one that raised
Current == tables[Len(table_schemas) + 1]

\* two foreign-key rows of table t name the same column
RepeatedColumn(t) ==
    \E c, k \in ForeignKeyRows(t) :
        c # k /\ c.foreign_key_column = k.foreign_key_column

CrossSchemaRow(t) ==
    \E c \in ForeignKeyRows(t) : c.primary_key_schema # c.foreign_key_schema

UnrecognizedColumn(t) ==
    \E c \in DOMAIN columns[t] : columns[t][c].data_type \notin LookupTable

\* the errors that the data of table t can make its load raise
LoadErrors(t) ==
    {"query"}
    \cup (IF UnrecognizedColumn(t) THEN {"unrecognized"} ELSE {})
    \cup (IF CrossSchemaRow(t) THEN {"cross_schema"} ELSE {})
    \cup (IF RepeatedColumn(t) THEN {"duplicate"} ELSE {})

\* C5: when the load of a table fails, get_catalog_schema returns no
\* CatalogSchema, the error that ends the build is an error of the earliest
\* table of the orderer's sequence whose load fails (every table before it
\* was loaded, none after it), and main writes no output file.
C5_FirstFailureAborts ==
    /\ pc = "raised_load" =>
        /\ catalog = None
        /\ output = None
        /\ Len(table_schemas) < Len(tables)
        /\ \A i \in DOMAIN table_schemas : table_schemas[i].name = tables[i]
        /\ error \in LoadErrors(Current)
    /\ error \in {"query", "unrecognized", "cross_schema", "duplicate"} =>
        /\ pc \in {"raised_order", "raised_load"}
        /\ catalog = None
        /\ output = None

C5_Witness ==
    /\ pc = "raised_load"
    /\ Len(table_schemas) = 1
    /\ Len(tables) = 3
    /\ error = "unrecognized"

\* C6: when a table of the target schema has a foreign key that references
\* a column of a different schema, no catalog is returned.
C6_CrossSchemaNoCatalog ==
    (\E t \in tabs : CrossSchemaRow(t)) => catalog = None

\* C7 as stated: when two foreign-key rows of a table name the same column
\* and the foreign-key pass fails, it fails with the duplicate-foreign-key
\* error.
C7_DuplicateError ==
    ( /\ pc = "raised_load"
      /\ RepeatedColumn(Current)
      /\ error \in {"cross_schema", "duplicate"} )
    => error = "duplicate"

\* row j of the fetched rows names a column that an earlier row names
Repeats(j) ==
    \E i \in 1..(j - 1) :
        constraints[i].foreign_key_column = constraints[j].foreign_key_column

Crosses(i) ==
    constraints[i].primary_key_schema # constraints[i].foreign_key_schema

\* C7 amended: when two foreign-key rows of a table name the same column,
\* the foreign-key pass fails: with the duplicate-foreign-key error when
\* no row up to and including the first row that repeats a column
\* references another schema, with the cross-schema error otherwise; no
\* TableSchema is returned for such a table, and every column of every
\* returned TableSchema carries the foreign key of the only constraint row
\* that names it, or none.
C7_DuplicateRejected ==
    /\ ( /\ pc = "raised_load"
         /\ RepeatedColumn(Current)
         /\ error \notin {"query", "unrecognized"} )
       => /\ { constraints[i] : i \in DOMAIN constraints } =
                 ForeignKeyRows(Current)
          /\ error \in {"cross_schema", "duplicate"}
          /\ error = "duplicate" <=>
                \E j \in DOMAIN constraints :
                    Repeats(j) /\ \A i \in 1..j : ~Crosses(i)
    /\ \A i \in DOMAIN table_schemas :
         LET table == table_schemas[i] IN
         /\ ~RepeatedColumn(table.name)
         /\ \A c \in DOMAIN table.columns :
              LET naming == { k \in ForeignKeyRows(table.name) :
                                k.foreign_key_column = c }
              IN  /\ Cardinality(naming) <= 1
                  /\ naming = {} => table.columns[c].references = None
                  /\ \A k \in naming :
                       table.columns[c].references = ForeignKey(k)

C7_Witness ==
    /\ pc = "raised_load"
    /\ RepeatedColumn(Current)
    /\ ~CrossSchemaRow(Current)
    /\ error = "duplicate"
    /\ Len(table_schemas) > 0
    /\ \E i \in DOMAIN table_schemas :
         \E c \in DOMAIN table_schemas[i].columns :
             table_schemas[i].columns[c].references # None

\* C8 as stated: for a schema with zero tables get_catalog_schema does not
\* return a catalog.
C8_EmptyNeverReturned ==
    tabs = {} => catalog = None

\* C8 amended: for a schema with zero tables get_catalog_schema returns a
\* catalog with zero tables; main then fails with the empty-schema error
\* and writes no output.
C8_EmptyFailsInMain ==
    (tabs = {} /\ pc \notin {"start", "recursing", "raised_order"}) =>
        /\ tables = <<>>
        /\ output = None
        /\ pc \in {"loading", "returned", "raised_main"}
        /\ pc \in {"returned", "raised_main"} => catalog.tables = <<>>
        /\ pc = "raised_main" => error = "empty"

C8_Witness ==
    /\ tabs = {}
    /\ pc = "raised_main"
    /\ error = "empty"
    /\ catalog = [name |-> db_schema, tables |-> <<>>]

\* C9: the orderer's output lists every depth-assigned table once, in
\* ascending order of assigned (least) depth and, within equal depth, of
\* name; it is therefore determined by the tables and constraints alone;
\* and the catalog's tables are in the order of that sequence.
C9_DepthThenName ==
    /\ Queried =>
         /\ { tables[i] : i \in DOMAIN tables } = Assigned
         /\ \A i, j \in DOMAIN tables :
              i < j =>
                \/ Least(tables[i]) < Least(tables[j])
                \/ /\ Least(tables[i]) = Least(tables[j])
                   /\ tables[i] < tables[j]
    /\ pc \in {"returned", "written", "raised_main"} =>
         [i \in DOMAIN catalog.tables |-> catalog.tables[i].name] = tables

C9_Witness ==
    /\ pc = "written"
    /\ Len(tables) = 3
    /\ Least(tables[1]) < Least(tables[2])
    /\ Least(tables[2]) = Least(tables[3])
    /\ [i \in DOMAIN output |-> output[i].name] = tables

\* C10: for every type name of the lookup table and each combination of
\* is_nullable and has_default the mapping returns, without error, the
\* Optional of the mapped primitive when is_nullable and not has_default,
\* and the bare primitive otherwise; for a name outside the table it
\* raises the unrecognized-type error.  Stated of the columns of the
\* tables that _get_table_schema has mapped.
C10_TypeMapping ==
    /\ \A i \in DOMAIN table_schemas :
         LET table == table_schemas[i] IN
         \A c \in DOMAIN table.columns :
             LET row == columns[table.name][c] IN
             /\ row.data_type \in LookupTable
             /\ table.columns[c].data_type.prim \in
                    {"str", "bool", "int", "float", "date", "time", "datetime"}
             /\ table.columns[c].data_type.prim = PyTypeOf(row.data_type)
             /\ table.columns[c].data_type.optional <=>
                    (row.is_nullable /\ ~row.has_default)
    /\ pc = "raised_load" =>
         (error = "unrecognized" <=>
            (error # "query" /\ UnrecognizedColumn(Current)))
    /\ (pc \in {"returned", "written"} /\ tables # <<>>) =>
         \A i \in DOMAIN tables : ~UnrecognizedColumn(tables[i])

C10_Witness ==
    /\ pc = "written"
    /\ columns[1][NumCols].data_type = "timestamp with time zone"
    /\ columns[1][NumCols].is_nullable
    /\ columns[1][NumCols].has_default
    /\ output[1].fields[NumCols].data_type = Bare("datetime")

\* C11: for every finite set of tables and foreign keys the depth-labelling
\* terminates: it generates finitely many (table, depth) rows and reaches a
\* fixpoint.  A row of depth d ends a chain of d - 1 foreign keys that
\* starts at a table without foreign keys; when d exceeds the number of
\* tables the chain passes twice through some table, and the recursive
\* term then produces a row at every further depth.  So the traversal
\* terminates exactly when no row is deeper than the number of tables.
C11_RecursionBounded ==
    \A r \in dependencies : r.depth <= Cardinality(tabs)

====
